---- MODULE Spec2Model ----
(***************************************************************************)
(* Employee-churn classifier: the training pipeline of build_model.py      *)
(* (EmployeeChurnClassifier) and the inference service of rest_api.py.     *)
(*                                                                         *)
(* Python values are tagged records [t, i, s]:                             *)
(*   t = "nan"    np.nan (a missing CSV cell)                              *)
(*   t = "int"    a Python / numpy integer, i its value                    *)
(*   t = "float"  a float, i its value in hundredths (0.9 is i = 90)       *)
(*   t = "str"    a Python string, s its text                              *)
(*   t = "raise"  the evaluation raised, s the exception's name            *)
(***************************************************************************)
EXTENDS Integers, Sequences, FiniteSets, TLC

VARIABLES
    \* ---- one application of a CategoryNormalizer function (preprocess_dataset's maps)
    arg,            \* the raw cell the function is applied to
    op,             \* which function was applied ("none" before)
    res,            \* the results so far: <<f(arg)>>, then <<f(arg), f(f(arg))>>
    \* ---- EmployeeChurnClassifier (build_model.py)
    pc,             \* the stage run_classifier_pipeline is about to call
    ran,            \* the stages called so far, in call order
    stdout,         \* the lines printed so far
    yaml,           \* the constants in config.yaml (a function from its keys)
    csv,            \* the CSV file at csv_path: [exists, rows]
    fstat,          \* the columns f_classif scores high on the (resampled) data
    diskok,         \* whether clf.joblib can be written
    consts,         \* self.CSV_PATH, ... : the attributes load_constants has set
    seeded,         \* np.random.seed(0) was called
    df,             \* self.df
    y,              \* self.y
    X_encoded,      \* self.X_encoded: [columns, rows]
    X_final,        \* self.X_final: [columns, rows]
    test_score,     \* result['test_score'] of the last cross_validate call
    best_tree,      \* self.best_tree
    best_accuracy,  \* self.best_accuracy
    joblib,         \* the tree in clf.joblib (NoTree: no such file)
    \* ---- the Flask service (rest_api.py)
    clf,            \* the module-level clf
    req             \* per request thread: the handler's position and locals

normVars == <<arg, op, res>>
envVars == <<yaml, csv, fstat, diskok>>
pipeVars == <<pc, ran, stdout, consts, seeded, df, y, X_encoded, X_final,
              test_score, best_tree, best_accuracy, joblib>>
serveVars == <<clf, req>>
vars == <<normVars, envVars, pipeVars, serveVars>>

----------------------------------------------------------------------------
(* Bounds of the model *)

\* Raw cells are all strings over Alphabet of at most this length.
MaxLen == 3

\* A CSV file's majority class has at most this many rows more than its minority.
MaxExtra == 2

\* config.yaml sets num_features_clf to 1..MaxK (or to a number above any column count).
MaxK == 5

\* Each fold's held-out accuracy is 1.00 down to 1.00 - MaxMisses / 100.
MaxMisses == 1

----------------------------------------------------------------------------
(* Constants of the program *)

\* SMOTE() at build_model.py:129 keeps imblearn's default k_neighbors.
SmoteNeighbors == 5

\* cross_validate(..., cv=5, ...) at build_model.py:145.
CvFolds == 5

----------------------------------------------------------------------------
(* Python values *)

NaN == [t |-> "nan", i |-> 0, s |-> ""]
IntV(n) == [t |-> "int", i |-> n, s |-> ""]
FloatV(h) == [t |-> "float", i |-> h, s |-> ""]
StrV(x) == [t |-> "str", i |-> 0, s |-> x]
Raise(e) == [t |-> "raise", i |-> 0, s |-> e]

IsNaN(v) == v.t = "nan"
IsStr(v) == v.t = "str"
IsNum(v) == v.t \in {"int", "float"}
Raised(v) == v.t = "raise"

\* a == b in Python: numbers compare by value across int and float, a string never
\* equals a number, and nan equals nothing.
PyEq(a, b) ==
    IF IsStr(a) /\ IsStr(b) THEN a.s = b.s
    ELSE IF IsNum(a) /\ IsNum(b)
         THEN (IF a.t = "int" THEN a.i * 100 ELSE a.i) = (IF b.t = "int" THEN b.i * 100 ELSE b.i)
         ELSE FALSE

\* c in s, for a one-character c and a string s.
Contains(c, s) == \E k \in 1..Len(s) : SubSeq(s, k, k) = c

\* s.split(c)[0]: the text left of the first c (all of s when it has none).
SplitHead(s, c) ==
    LET hits == {k \in 1..Len(s) : SubSeq(s, k, k) = c}
    IN  IF hits = {} THEN s
        ELSE SubSeq(s, 1, (CHOOSE k \in hits : \A j \in hits : k <= j) - 1)

\* s.split(c)[1]: the text between the first and the second c; IndexError without a c.
SplitSecond(s, c) ==
    LET hits == {k \in 1..Len(s) : SubSeq(s, k, k) = c}
    IN  IF hits = {} THEN Raise("IndexError")
        ELSE LET first == CHOOSE k \in hits : \A j \in hits : k <= j
                 rest == SubSeq(s, first + 1, Len(s))
             IN  StrV(SplitHead(rest, c))

Digits == <<"0", "1", "2", "3", "4", "5", "6", "7", "8", "9">>
IsDigit(c) == \E d \in 1..10 : Digits[d] = c
DigitVal(c) == (CHOOSE d \in 1..10 : Digits[d] = c) - 1

RECURSIVE DigitsValue(_)
DigitsValue(s) ==
    IF s = "" THEN 0
    ELSE 10 * DigitsValue(SubSeq(s, 1, Len(s) - 1)) + DigitVal(SubSeq(s, Len(s), Len(s)))

AllDigits(s) == s # "" /\ \A k \in 1..Len(s) : IsDigit(SubSeq(s, k, k))

\* int(v) in Python: a decimal string with an optional sign, or a number.
PyInt(v) ==
    IF v.t \in {"int", "bool"} THEN IntV(v.i)
    ELSE IF v.t = "none" THEN Raise("TypeError")
    ELSE IF v.t = "float" THEN IntV(IF v.i >= 0 THEN v.i \div 100 ELSE -((-v.i) \div 100))
    ELSE IF v.t = "nan" THEN Raise("ValueError")
    ELSE IF v.t = "raise" THEN v
    ELSE LET signed == v.s # "" /\ SubSeq(v.s, 1, 1) \in {"+", "-"}
             body == IF signed THEN SubSeq(v.s, 2, Len(v.s)) ELSE v.s
         IN  IF ~AllDigits(body) THEN Raise("ValueError")
             ELSE IF signed /\ SubSeq(v.s, 1, 1) = "-" THEN IntV(-DigitsValue(body))
             ELSE IntV(DigitsValue(body))

\* .astype(np.int8) of one cell of an object column: int(cell), then the cast to 8
\* bits.  An integer outside -128..127 wraps or raises OverflowError, by numpy
\* version: both outcomes are in the set.
AstypeInt8(v) ==
    LET n == PyInt(v)
    IN  IF Raised(n) THEN {n}
        ELSE IF n.i \in -128..127 THEN {n}
        ELSE {IntV(((n.i + 128) % 256) - 128), Raise("OverflowError")}

----------------------------------------------------------------------------
(* CategoryNormalizer: the functions preprocess_dataset maps over its columns *)

\* int(row.split('_')[1]), the lambda mapped over df['city'].
convert_city_to_int(row) ==
    IF ~IsStr(row) THEN Raise("AttributeError")
    ELSE LET part == SplitSecond(row.s, "_")
         IN  IF Raised(part) THEN part ELSE PyInt(part)

convert_experience_to_int_Cap20(row) ==
    IF IsNaN(row) THEN StrV("-1")
    ELSE IF PyEq(row, StrV("<1")) THEN StrV("0")
    ELSE IF PyEq(row, StrV(">20")) THEN StrV("20")
    ELSE row

convert_experience_to_int(row) ==
    IF IsNaN(row) THEN StrV("-1")
    ELSE IF PyEq(row, StrV("<1")) THEN StrV("0")
    ELSE IF PyEq(row, StrV(">20")) THEN StrV("21")
    ELSE row

\* The same function with the '/' test moved in front of the '+' test.
convert_size_to_int_SlashFirst(row) ==
    IF IsNaN(row) THEN IntV(-1)
    ELSE IF ~IsStr(row) THEN Raise("TypeError")
    ELSE IF Contains("/", row.s) THEN IntV(10)
    ELSE IF Contains("+", row.s) THEN IntV(10000)
    ELSE IF Contains("<", row.s) THEN IntV(0)
    ELSE IF Contains("-", row.s) THEN StrV(SplitHead(row.s, "-"))
    ELSE row

\* The same function keeping the text right of the first hyphen.
convert_size_to_int_UpperBound(row) ==
    IF IsNaN(row) THEN IntV(-1)
    ELSE IF ~IsStr(row) THEN Raise("TypeError")
    ELSE IF Contains("+", row.s) THEN IntV(10000)
    ELSE IF Contains("/", row.s) THEN IntV(10)
    ELSE IF Contains("<", row.s) THEN IntV(0)
    ELSE IF Contains("-", row.s)
         THEN StrV(SubSeq(row.s, Len(SplitHead(row.s, "-")) + 2, Len(row.s)))
    ELSE row

\* '+' in row raises TypeError when row is a number: an int is not iterable.
convert_size_to_int(row) ==
    IF IsNaN(row) THEN IntV(-1)
    ELSE IF ~IsStr(row) THEN Raise("TypeError")
    ELSE IF Contains("+", row.s) THEN IntV(10000)
    ELSE IF Contains("/", row.s) THEN IntV(10)
    ELSE IF Contains("<", row.s) THEN IntV(0)
    ELSE IF Contains("-", row.s) THEN StrV(SplitHead(row.s, "-"))
    ELSE row

convert_last_job_to_int(row) ==
    IF IsNaN(row) THEN IntV(-1)
    ELSE IF ~IsStr(row) THEN Raise("TypeError")
    ELSE IF Contains(">", row.s) THEN IntV(4)
    ELSE IF row.s = "never" THEN IntV(0)
    ELSE PyInt(row)

convert_ed_level_to_int(row) ==
    IF IsNaN(row) THEN IntV(-1)
    ELSE IF PyEq(row, StrV("Primary School")) THEN IntV(0)
    ELSE IF PyEq(row, StrV("High School")) THEN IntV(1)
    ELSE IF PyEq(row, StrV("Graduate")) THEN IntV(2)
    ELSE IF PyEq(row, StrV("Masters")) THEN IntV(3)
    ELSE IF PyEq(row, StrV("Phd")) THEN IntV(4)
    ELSE row

\* The outcomes of .map(convert_experience_to_int).astype(np.int8) on one cell.
ExperienceColumn(row) == AstypeInt8(convert_experience_to_int(row))

----------------------------------------------------------------------------
(* The raw cells the normalizers are applied to *)

Alphabet == {"+", "/", "<", "-", ">", "_", "0", "1", "2"}

RECURSIVE StringsUpTo(_)
StringsUpTo(n) ==
    IF n = 0 THEN {""}
    ELSE LET shorter == StringsUpTo(n - 1)
         IN  shorter \cup {x \o c : x \in shorter, c \in Alphabet}

\* The values of the dataset's experience, company_size, last_new_job and
\* education_level columns.
ExperienceLevels == {"<1", ">20"} \cup {ToString(n) : n \in 1..20}
SizeLevels == {"<10", "10/49", "50-99", "100-500", "500-999", "1000-4999",
               "5000-9999", "10000+"}
LastJobLevels == {"never", "1", "2", "3", "4", ">4"}
EdLevels == {"Primary School", "High School", "Graduate", "Masters", "Phd"}

RawCells ==
    {NaN} \cup {StrV(x) : x \in StringsUpTo(MaxLen) \cup ExperienceLevels
                                \cup SizeLevels \cup LastJobLevels \cup EdLevels}

----------------------------------------------------------------------------
(* Applying one normalizer to one cell *)

NormInit ==
    /\ arg \in RawCells
    /\ op = "none"
    /\ res = <<>>

NormIdle ==
    /\ arg = NaN
    /\ op = "none"
    /\ res = <<>>

ApplyExperience ==
    /\ op = "none"
    /\ \E r \in ExperienceColumn(arg) : res' = <<r>>
    /\ op' = "experience"
    /\ UNCHANGED <<arg, envVars, pipeVars, serveVars>>

ApplySize ==
    /\ op = "none"
    /\ res' = <<convert_size_to_int(arg)>>
    /\ op' = "size"
    /\ UNCHANGED <<arg, envVars, pipeVars, serveVars>>

\* convert_size_to_int applied to its own result.
ApplySizeAgain ==
    /\ op = "size"
    /\ res' = Append(res, convert_size_to_int(res[1]))
    /\ op' = "size_twice"
    /\ UNCHANGED <<arg, envVars, pipeVars, serveVars>>

ApplyLastJob ==
    /\ op = "none"
    /\ res' = <<convert_last_job_to_int(arg)>>
    /\ op' = "last_new_job"
    /\ UNCHANGED <<arg, envVars, pipeVars, serveVars>>

ApplyEdLevel ==
    /\ op = "none"
    /\ res' = <<convert_ed_level_to_int(arg)>>
    /\ op' = "education_level"
    /\ UNCHANGED <<arg, envVars, pipeVars, serveVars>>

ApplyCity ==
    /\ op = "none"
    /\ res' = <<convert_city_to_int(arg)>>
    /\ op' = "city"
    /\ UNCHANGED <<arg, envVars, pipeVars, serveVars>>

----------------------------------------------------------------------------
(* The environment of a training run: config.yaml and the CSV file *)

ConfigKeys == <<"csv_path", "oversampling", "scoring", "max_depth", "num_features_clf">>

BoolV(b) == [t |-> "bool", i |-> IF b THEN 1 ELSE 0, s |-> ""]

\* bool(v), as `if self.OVERSAMPLING:` takes it.
Truthy(v) == IF IsStr(v) THEN v.s # "" ELSE v.i # 0

FullConfig(oversampling, k) ==
    [key \in {ConfigKeys[n] : n \in 1..Len(ConfigKeys)} |->
        CASE key = "csv_path" -> StrV("dataset.csv")
          [] key = "oversampling" -> BoolV(oversampling)
          [] key = "scoring" -> StrV("accuracy")
          [] key = "max_depth" -> IntV(3)
          [] key = "num_features_clf" -> IntV(k)]

\* A K above any column count the datasets below encode to.
TooManyFeatures == 99

Without(f, key) == [x \in DOMAIN f \ {key} |-> f[x]]

YamlFiles ==
    {FullConfig(o, k) : o \in BOOLEAN, k \in (1..MaxK) \cup {TooManyFeatures}}
    \cup {Without(FullConfig(FALSE, 4), ConfigKeys[n]) : n \in 1..Len(ConfigKeys)}

\* One row of the CSV file, as pd.read_csv yields it: the label is the last column.
Row(city, cdi, gender, size, ctype, exper, label) ==
    [enrollee_id |-> IntV(1), city |-> city, city_development_index |-> cdi,
     gender |-> gender, relevent_experience |-> StrV("Has relevent experience"),
     enrolled_university |-> StrV("no_enrollment"), education_level |-> StrV("Graduate"),
     major_discipline |-> StrV("STEM"), experience |-> exper, company_size |-> size,
     company_type |-> ctype, last_new_job |-> StrV(">4"), training_hours |-> IntV(36),
     target |-> FloatV(100 * label)]

Leaver(label) == Row(StrV("city_21"), FloatV(62), NaN, NaN, NaN, StrV(">20"), label)
Stayer(label) == Row(StrV("city_5"), FloatV(92), StrV("Male"), StrV("50-99"),
                     StrV("Pvt Ltd"), StrV("<1"), label)
\* A row whose city has no underscore, and one whose experience is no number.
BadCity(label) == Row(StrV("21"), FloatV(62), NaN, NaN, NaN, StrV("3"), label)
BadExperience(label) == Row(StrV("city_21"), FloatV(62), NaN, NaN, NaN, StrV("1-2"), label)
\* A row whose training_hours cell is missing: fillna leaves 'not_specified' in a
\* numeric column.
NoHours(label) == [Leaver(label) EXCEPT !.training_hours = NaN]

\* minority rows of class 1 (the leavers) first, then majority rows of class 0, the
\* two kinds of row alternating inside each class so that both levels are observed.
Dataset(minority, majority) ==
    [k \in 1..(minority + majority) |->
        IF k <= minority THEN Leaver(1)
        ELSE IF k % 2 = 0 THEN Stayer(0) ELSE Leaver(0)]

CleanDatasets ==
    {Dataset(m, m + e) : m \in {2, SmoteNeighbors + 1}, e \in 0..MaxExtra}

CsvFiles ==
    {[exists |-> TRUE, rows |-> d] : d \in CleanDatasets \cup {Dataset(0, CvFolds)}}
    \cup {[exists |-> TRUE, rows |-> Append(Dataset(2, 3), r)]
             : r \in {BadCity(0), BadExperience(0), NoHours(0)}}
    \cup {[exists |-> FALSE, rows |-> <<>>]}

----------------------------------------------------------------------------
(* preprocess_dataset *)

\* df[field] = cells, assigned as a whole column.
SetColumn(d, field, cells) == [k \in 1..Len(d) |-> [d[k] EXCEPT ![field] = cells[k]]]

AnyRaised(cells) == \E k \in 1..Len(cells) : Raised(cells[k])

\* All the sequences whose k-th element is drawn from sets[k].
RECURSIVE Picks(_)
Picks(sets) ==
    IF sets = <<>> THEN {<<>>}
    ELSE {Append(p, x) : p \in Picks(SubSeq(sets, 1, Len(sets) - 1)), x \in sets[Len(sets)]}

\* The outcomes of preprocess_dataset on self.df = d: [df, ok].  The five columns are
\* mapped and assigned in the source's order; a map that raises leaves its column and
\* the later ones as they were.
PreprocessOutcomes(d) ==
    LET city == [k \in 1..Len(d) |-> convert_city_to_int(d[k].city)]
        d1 == SetColumn(d, "city", city)
        size == [k \in 1..Len(d) |-> convert_size_to_int(d[k].company_size)]
        job == [k \in 1..Len(d) |-> convert_last_job_to_int(d[k].last_new_job)]
        ed == [k \in 1..Len(d) |-> convert_ed_level_to_int(d[k].education_level)]
    IN  IF AnyRaised(city) THEN {[df |-> d, ok |-> FALSE]}
        ELSE UNION {
            IF AnyRaised(ex) THEN {[df |-> d1, ok |-> FALSE]}
            ELSE LET d2 == SetColumn(d1, "experience", ex)
                     d3 == SetColumn(d2, "company_size", size)
                     d4 == SetColumn(d3, "last_new_job", job)
                 IN  IF AnyRaised(size) THEN {[df |-> d2, ok |-> FALSE]}
                     ELSE IF AnyRaised(job) THEN {[df |-> d3, ok |-> FALSE]}
                     ELSE {[df |-> SetColumn(d4, "education_level", ed), ok |-> TRUE]}
            : ex \in Picks([k \in 1..Len(d) |-> ExperienceColumn(d[k].experience)])}

----------------------------------------------------------------------------
(* encode_features *)

FieldsOf(d) == IF d = <<>> THEN {} ELSE DOMAIN d[1]

\* self.df.fillna('not_specified'): every missing cell of every column.
Fillna(d) ==
    [k \in 1..Len(d) |->
        [f \in FieldsOf(d) |-> IF IsNaN(d[k][f]) THEN StrV("not_specified") ELSE d[k][f]]]

NominalCols == <<"city", "gender", "relevent_experience", "enrolled_university",
                 "major_discipline", "company_type">>
NonCategoricalCols == <<"city_development_index", "experience", "company_size",
                        "last_new_job", "training_hours", "education_level">>

\* The characters of the model's strings, in code-point order.
CodePoints == " +-/0123456789<>ABCDEFGHIJKLMNOPQRSTUVWXYZ_abcdefghijklmnopqrstuvwxyz"
CodePoint(c) == CHOOSE n \in 1..Len(CodePoints) : SubSeq(CodePoints, n, n) = c

\* a < b on Python strings.
RECURSIVE StrLess(_, _)
StrLess(a, b) ==
    IF b = "" THEN FALSE
    ELSE IF a = "" THEN TRUE
    ELSE LET ca == CodePoint(SubSeq(a, 1, 1))
             cb == CodePoint(SubSeq(b, 1, 1))
         IN  IF ca # cb THEN ca < cb
             ELSE StrLess(SubSeq(a, 2, Len(a)), SubSeq(b, 2, Len(b)))

ValLess(a, b) == IF IsStr(a) THEN StrLess(a.s, b.s) ELSE a.i < b.i

\* The sorted distinct values of a column whose values are all strings or all numbers.
RECURSIVE SortedLevels(_)
SortedLevels(levels) ==
    IF levels = {} THEN <<>>
    ELSE LET least == CHOOSE a \in levels : \A b \in levels \ {a} : ValLess(a, b)
         IN  <<least>> \o SortedLevels(levels \ {least})

\* OneHotEncoder refuses a column that mixes strings and numbers.
Uniform(levels) == (\A a \in levels : IsStr(a)) \/ (\A a \in levels : ~IsStr(a))

\* str(level), as get_feature_names_out appends it to the field's name.
LevelName(v) == IF IsStr(v) THEN v.s ELSE ToString(v.i)

ColumnLevels(d, field) == {d[k][field] : k \in 1..Len(d)}

RECURSIVE Flatten(_)
Flatten(seqs) == IF seqs = <<>> THEN <<>> ELSE Head(seqs) \o Flatten(Tail(seqs))

\* The outcome of encode_features on self.df = d: [df, y, X, ok].
EncodeOutcome(d) ==
    LET filled == Fillna(d)
        cats == [n \in 1..Len(NominalCols) |-> ColumnLevels(filled, NominalCols[n])]
        sorted == [n \in 1..Len(NominalCols) |-> SortedLevels(cats[n])]
        names == Flatten([n \in 1..Len(NominalCols) |->
                    [m \in 1..Len(sorted[n]) |->
                        NominalCols[n] \o "_" \o LevelName(sorted[n][m])]])
        hot(k) == Flatten([n \in 1..Len(NominalCols) |->
                    [m \in 1..Len(sorted[n]) |->
                        IF filled[k][NominalCols[n]] = sorted[n][m]
                        THEN FloatV(100) ELSE FloatV(0)]])
        plain(k) == [n \in 1..Len(NonCategoricalCols) |-> filled[k][NonCategoricalCols[n]]]
        labels == [k \in 1..Len(d) |-> filled[k].target]
    IN  IF \E n \in 1..Len(NominalCols) : ~Uniform(cats[n])
        THEN [df |-> filled, y |-> labels, X |-> <<>>, ok |-> FALSE]
        ELSE [df |-> filled, y |-> labels, ok |-> TRUE,
              X |-> [columns |-> NonCategoricalCols \o names,
                     rows |-> [k \in 1..Len(d) |-> plain(k) \o hot(k)]]]

----------------------------------------------------------------------------
(* apply_oversampling *)

\* What sklearn's input check converts to a float: a number, or a numeric string.
Numeric(v) == v.t \in {"int", "float", "bool"} \/ (IsStr(v) /\ ~Raised(PyInt(v)))
AllNumeric(X) ==
    \A k \in 1..Len(X.rows) : \A n \in 1..Len(X.rows[k]) : Numeric(X.rows[k][n])

Count(labels, c) == Cardinality({k \in 1..Len(labels) : labels[k] = c})

\* A synthetic sample: SMOTE interpolates between a minority row and one of its
\* neighbours; the model keeps the base row's values, as floats.
Synthetic(row) ==
    [n \in 1..Len(row) |->
        IF row[n].t = "float" THEN row[n] ELSE FloatV(100 * PyInt(row[n]).i)]

\* The outcomes of SMOTE().fit_resample(X, labels): [X, y, ok].  The minority class
\* is filled up to the majority's count with synthetic rows appended after the
\* original rows; a minority of at most k_neighbors rows cannot be resampled.
SmoteOutcomes(X, labels) ==
    LET classes == {labels[k] : k \in 1..Len(labels)}
        failed == {[X |-> X, y |-> labels, ok |-> FALSE]}
    IN  IF Cardinality(classes) < 2 \/ ~AllNumeric(X) THEN failed
        ELSE LET major == CHOOSE c \in classes :
                              \A o \in classes : Count(labels, o) <= Count(labels, c)
                 minor == CHOOSE c \in classes : c # major
                 missing == Count(labels, major) - Count(labels, minor)
                 bases == {X.rows[k] : k \in {j \in 1..Len(labels) : labels[j] = minor}}
             IN  IF missing = 0 THEN {[X |-> X, y |-> labels, ok |-> TRUE]}
                 ELSE IF Count(labels, minor) <= SmoteNeighbors THEN failed
                 ELSE {[X |-> [X EXCEPT !.rows = X.rows \o [n \in 1..missing |-> Synthetic(new[n])]],
                        y |-> labels \o [n \in 1..missing |-> minor],
                        ok |-> TRUE]
                       : new \in [1..missing -> bases]}

\* The same, resampling the minority one row short of the majority.
apply_oversampling_OneShort(oversampling, X, labels) ==
    IF ~Truthy(oversampling) THEN {[X |-> X, y |-> labels, ok |-> TRUE]}
    ELSE {IF r.ok /\ Len(r.y) > Len(labels)
          THEN [r EXCEPT !.y = SubSeq(r.y, 1, Len(r.y) - 1)] ELSE r
          : r \in SmoteOutcomes(X, labels)}

\* The outcomes of apply_oversampling: [X, y, ok].
apply_oversampling(oversampling, X, labels) ==
    IF ~Truthy(oversampling) THEN {[X |-> X, y |-> labels, ok |-> TRUE]}
    ELSE SmoteOutcomes(X, labels)

----------------------------------------------------------------------------
(* select_features *)

\* f_classif's score of a column: high for the columns in `high`, low for the rest.
Score(col, high) == IF col \in high THEN 1 ELSE 0

\* SelectKBest's support mask: the last k places of the stable ascending argsort of
\* the scores, i.e. the k columns ranked highest by (score, position).
Support(columns, k, high) ==
    LET n == Len(columns)
        below(j) == {m \in 1..n :
                        \/ Score(columns[m], high) < Score(columns[j], high)
                        \/ Score(columns[m], high) = Score(columns[j], high) /\ m < j}
    IN  {j \in 1..n : Cardinality(below(j)) >= n - k}

\* The members of a set of positions, ascending.
RECURSIVE Ascending(_)
Ascending(positions) ==
    IF positions = {} THEN <<>>
    ELSE LET least == CHOOSE a \in positions : \A b \in positions : a <= b
         IN  <<least>> \o Ascending(positions \ {least})

Project(X, places) ==
    [columns |-> [n \in 1..Len(places) |-> X.columns[places[n]]],
     rows |-> [k \in 1..Len(X.rows) |-> [n \in 1..Len(places) |-> X.rows[k][places[n]]]]]

\* The same, with the kept columns in reverse matrix order.
select_features_Reversed(k, X, labels, high) ==
    IF ~(k.t = "int" /\ k.i \in 0..Len(X.columns)) \/ ~AllNumeric(X)
    THEN [X |-> <<>>, ok |-> FALSE]
    ELSE LET kept == Ascending(Support(X.columns, k.i, high))
         IN  [X |-> Project(X, [n \in 1..Len(kept) |-> kept[Len(kept) + 1 - n]]), ok |-> TRUE]

\* The outcome of select_features: [X, ok], X the new self.X_final.  SelectKBest
\* refuses a k above the column count.
select_features(k, X, labels, high) ==
    IF ~(k.t = "int" /\ k.i \in 0..Len(X.columns)) \/ ~AllNumeric(X)
    THEN [X |-> <<>>, ok |-> FALSE]
    ELSE [X |-> Project(X, Ascending(Support(X.columns, k.i, high))), ok |-> TRUE]

----------------------------------------------------------------------------
(* train_classifier and dump_classifier *)

\* result['test_score']: one held-out accuracy per fold.
FoldScores == [1..CvFolds -> {FloatV(100 - m) : m \in 0..MaxMisses}]

\* np.max(scores).
Max(scores) == CHOOSE a \in {scores[n] : n \in 1..Len(scores)} :
                   \A n \in 1..Len(scores) : scores[n].i <= a.i

\* The last place of the maximum instead of the first.
ArgMaxLast(scores) ==
    CHOOSE n \in 1..Len(scores) :
        scores[n] = Max(scores) /\ \A m \in (n + 1)..Len(scores) : scores[m] # Max(scores)

\* np.argmax(scores): the first place of the maximum (1-based here).
ArgMax(scores) ==
    CHOOSE n \in 1..Len(scores) :
        scores[n] = Max(scores) /\ \A m \in 1..(n - 1) : scores[m] # Max(scores)

\* result['estimator'][n]: the tree cross_validate fitted with fold n held out, on
\* the columns of X_final.
Estimator(n, X, depth) == [fold |-> n, feature_names_in |-> X.columns, max_depth |-> depth]

\* f"Accuracy achieved: {accuracy:.2f} %"
AccuracyLine(accuracy) ==
    LET cents == accuracy.i % 100
    IN  "Accuracy achieved: " \o ToString(accuracy.i \div 100) \o "."
        \o (IF cents < 10 THEN "0" ELSE "") \o ToString(cents) \o " %"

\* The same, printing the accuracy before the dump.
dump_classifier_PrintFirst(tree, accuracy, writable, file, out) ==
    IF ~writable THEN [joblib |-> file, stdout |-> Append(out, AccuracyLine(accuracy)), ok |-> FALSE]
    ELSE [joblib |-> tree, stdout |-> Append(out, AccuracyLine(accuracy)), ok |-> TRUE]

\* dump_classifier: [joblib, stdout, ok].  dump() raises before the print when the
\* file cannot be written.
dump_classifier(tree, accuracy, writable, file, out) ==
    IF ~writable THEN [joblib |-> file, stdout |-> out, ok |-> FALSE]
    ELSE [joblib |-> tree, stdout |-> Append(out, AccuracyLine(accuracy)), ok |-> TRUE]

----------------------------------------------------------------------------
(* run_classifier_pipeline, one action per stage it calls *)

Stages == <<"load_constants", "set_seed", "load_dataset", "preprocess_dataset",
            "encode_features", "apply_oversampling", "select_features",
            "train_classifier">>

None == [t |-> "none", i |-> 0, s |-> ""]
NoFrame == [columns |-> <<>>, rows |-> <<>>]
NoTree == [fold |-> 0, feature_names_in |-> <<>>, max_depth |-> None]

\* The classifier after __init__.
Constructed ==
    /\ pc = "load_constants"
    /\ ran = <<>>
    /\ stdout = <<>>
    /\ consts = <<>>
    /\ seeded = FALSE
    /\ df = <<>>
    /\ y = <<>>
    /\ X_encoded = NoFrame
    /\ X_final = NoFrame
    /\ test_score = <<>>
    /\ best_tree = NoTree
    /\ best_accuracy = None

AttributeOf(key) ==
    CASE key = "csv_path" -> "CSV_PATH"
      [] key = "oversampling" -> "OVERSAMPLING"
      [] key = "scoring" -> "SCORING"
      [] key = "max_depth" -> "MAX_DEPTH"
      [] key = "num_features_clf" -> "NUM_FEATURES_CLF"

\* The attributes load_constants sets before the first key the file lacks, in
\* ConfigKeys order, as <<attribute, value>> pairs.
LoadedConstants(file) ==
    LET missing == {n \in 1..Len(ConfigKeys) : ConfigKeys[n] \notin DOMAIN file}
        stop == IF missing = {} THEN Len(ConfigKeys) + 1
                ELSE CHOOSE n \in missing : \A m \in missing : n <= m
    IN  [n \in 1..(stop - 1) |-> <<AttributeOf(ConfigKeys[n]), file[ConfigKeys[n]]>>]

\* self.<attribute>
Attr(attribute) ==
    LET n == CHOOSE m \in 1..Len(consts) : consts[m][1] = attribute
    IN  consts[n][2]

load_constants ==
    /\ pc = "load_constants"
    /\ ran' = Append(ran, "load_constants")
    /\ stdout' = Append(stdout, "Loading constants...")
    /\ consts' = LoadedConstants(yaml)
    /\ pc' = IF Len(consts') = Len(ConfigKeys) THEN "set_seed" ELSE "raised"
    /\ UNCHANGED <<seeded, df, y, X_encoded, X_final, test_score, best_tree,
                   best_accuracy, joblib>>
    /\ UNCHANGED <<envVars, normVars, serveVars>>

set_seed ==
    /\ pc = "set_seed"
    /\ ran' = Append(ran, "set_seed")
    /\ stdout' = Append(stdout, "Setting seed for reproducibility...")
    /\ seeded' = TRUE
    /\ pc' = "load_dataset"
    /\ UNCHANGED <<consts, df, y, X_encoded, X_final, test_score, best_tree,
                   best_accuracy, joblib>>
    /\ UNCHANGED <<envVars, normVars, serveVars>>

load_dataset ==
    /\ pc = "load_dataset"
    /\ ran' = Append(ran, "load_dataset")
    /\ stdout' = Append(stdout, "Loading dataset...")
    /\ IF ~csv.exists
       THEN pc' = "raised" /\ df' = df
       ELSE pc' = "preprocess_dataset" /\ df' = csv.rows
    /\ UNCHANGED <<consts, seeded, y, X_encoded, X_final, test_score, best_tree,
                   best_accuracy, joblib>>
    /\ UNCHANGED <<envVars, normVars, serveVars>>

preprocess_dataset ==
    /\ pc = "preprocess_dataset"
    /\ ran' = Append(ran, "preprocess_dataset")
    /\ stdout' = Append(stdout, "Preprocessing dataset...")
    /\ \E r \in PreprocessOutcomes(df) :
        /\ df' = r.df
        /\ pc' = IF r.ok THEN "encode_features" ELSE "raised"
    /\ UNCHANGED <<consts, seeded, y, X_encoded, X_final, test_score, best_tree,
                   best_accuracy, joblib>>
    /\ UNCHANGED <<envVars, normVars, serveVars>>

encode_features ==
    /\ pc = "encode_features"
    /\ ran' = Append(ran, "encode_features")
    /\ stdout' = Append(stdout, "Encoding features...")
    /\ LET r == EncodeOutcome(df)
       IN  /\ df' = r.df
           /\ y' = r.y
           /\ X_encoded' = IF r.ok THEN r.X ELSE X_encoded
           /\ pc' = IF r.ok THEN "apply_oversampling" ELSE "raised"
    /\ UNCHANGED <<consts, seeded, X_final, test_score, best_tree, best_accuracy, joblib>>
    /\ UNCHANGED <<envVars, normVars, serveVars>>

ApplyOversamplingStage ==
    /\ pc = "apply_oversampling"
    /\ ran' = Append(ran, "apply_oversampling")
    /\ stdout' = Append(stdout, IF Truthy(Attr("OVERSAMPLING"))
                                THEN "Applying oversampling..."
                                ELSE "Oversampling is not applied.")
    /\ \E r \in apply_oversampling(Attr("OVERSAMPLING"), X_encoded, y) :
        /\ X_encoded' = r.X
        /\ y' = r.y
        /\ pc' = IF r.ok THEN "select_features" ELSE "raised"
    /\ UNCHANGED <<consts, seeded, df, X_final, test_score, best_tree, best_accuracy, joblib>>
    /\ UNCHANGED <<envVars, normVars, serveVars>>

SelectFeaturesStage ==
    /\ pc = "select_features"
    /\ ran' = Append(ran, "select_features")
    /\ stdout' = Append(stdout, "Selecting " \o LevelName(Attr("NUM_FEATURES_CLF"))
                                \o " features using ANOVA...")
    /\ LET r == select_features(Attr("NUM_FEATURES_CLF"), X_encoded, y, fstat)
       IN  /\ X_final' = IF r.ok THEN r.X ELSE X_final
           /\ pc' = IF r.ok THEN "train_classifier" ELSE "raised"
    /\ UNCHANGED <<consts, seeded, df, y, X_encoded, test_score, best_tree,
                   best_accuracy, joblib>>
    /\ UNCHANGED <<envVars, normVars, serveVars>>

\* cross_validate needs at least cv samples; then the best fold's tree is kept and
\* dumped.
train_classifier ==
    /\ pc = "train_classifier"
    /\ ran' = Append(ran, "train_classifier")
    /\ LET out == Append(stdout, "Training the Decision Tree classifier...")
       IN  IF Len(y) < CvFolds
           THEN /\ pc' = "raised"
                /\ stdout' = out
                /\ UNCHANGED <<test_score, best_tree, best_accuracy, joblib>>
           ELSE \E scores \in FoldScores :
                LET tree == Estimator(ArgMax(scores), X_final, Attr("MAX_DEPTH"))
                    accuracy == FloatV(Max(scores).i * 100)
                    dumped == dump_classifier(tree, accuracy, diskok, joblib, out)
                IN  /\ test_score' = scores
                    /\ best_tree' = tree
                    /\ best_accuracy' = accuracy
                    /\ joblib' = dumped.joblib
                    /\ stdout' = dumped.stdout
                    /\ pc' = IF dumped.ok THEN "completed" ELSE "raised"
    /\ UNCHANGED <<consts, seeded, df, y, X_encoded, X_final>>
    /\ UNCHANGED <<envVars, normVars, serveVars>>

\* The last line of run_classifier_pipeline.
pipeline_completed ==
    /\ pc = "completed"
    /\ stdout' = Append(stdout, "\nPipeline completed.")
    /\ pc' = "done"
    /\ UNCHANGED <<ran, consts, seeded, df, y, X_encoded, X_final, test_score,
                   best_tree, best_accuracy, joblib>>
    /\ UNCHANGED <<envVars, normVars, serveVars>>

----------------------------------------------------------------------------
(* The sets of columns f_classif may rank highest *)

InferenceCols == <<"city_development_index", "experience", "city_21",
                   "company_type_not_specified">>

\* Which columns score high depends on the data: the four columns rest_api.py
\* expects, two other columns, or none (all scores tie).
FstatChoices ==
    {{InferenceCols[n] : n \in 1..Len(InferenceCols)},
     {"training_hours", "company_size"},
     {}}

----------------------------------------------------------------------------
(* rest_api.py: the /predict handler *)

Threads == {"t1", "t2"}

\* A request's JSON object is a function from its keys to values.
HasKeys(data, keys) == \A n \in 1..Len(keys) : keys[n] \in DOMAIN data

\* rest_api.py's own convert_experience_to_int.
ServeExperience(row) ==
    IF IsNaN(row) THEN StrV("-1")
    ELSE IF PyEq(row, StrV("<1")) THEN StrV("0")
    ELSE IF PyEq(row, StrV(">20")) THEN StrV("21")
    ELSE PyInt(row)

\* preprocess_input: [ok, index, values, input_data], the returned Series (its index
\* and its values) and the caller's record afterwards.  A missing key raises
\* KeyError, a non-numeric experience ValueError.
preprocess_input(input_data) ==
    IF ~HasKeys(input_data, <<"city", "company_type", "experience", "city_development_index">>)
    THEN [ok |-> FALSE, index |-> <<>>, values |-> <<>>, input_data |-> input_data]
    ELSE LET data == input_data
             city_21 == IF ~PyEq(data["city"], IntV(21)) THEN FloatV(0) ELSE FloatV(100)
             unspecified == IF PyEq(data["company_type"], StrV("not_specified"))
                            THEN FloatV(100) ELSE FloatV(0)
             experience == ServeExperience(data["experience"])
         IN  [ok |-> ~Raised(experience), index |-> InferenceCols,
              values |-> <<data["city_development_index"], experience, city_21, unspecified>>,
              input_data |-> input_data]

\* A cell as the float sklearn converts it to, in hundredths.
AsFloat(v) == IF v.t = "float" THEN v.i ELSE 100 * PyInt(v).i

\* tree.predict on one sample.  A fitted tree is a fixed function of the sample: here
\* a stump on the first feature whose threshold is the fold's.
TreePredict(tree, values) ==
    IF AsFloat(values[1]) < 20 * tree.fold THEN FloatV(100) ELSE FloatV(0)

\* The same, with a model that counts the samples it has seen and drifts with them.
make_prediction_Drifting(model, values) ==
    IF Len(values) # Len(model.feature_names_in) \/ \E n \in 1..Len(values) : ~Numeric(values[n])
    THEN [prediction |-> Raise("ValueError"), clf |-> model]
    ELSE [prediction |-> TreePredict(model, values),
          clf |-> [model EXCEPT !.fold = (model.fold % CvFolds) + 1]]

\* make_prediction: [prediction, clf], the first predicted label and the model
\* afterwards.  predict refuses a sample whose length is not the tree's feature count.
make_prediction(model, values) ==
    IF Len(values) # Len(model.feature_names_in) \/ \E n \in 1..Len(values) : ~Numeric(values[n])
    THEN [prediction |-> Raise("ValueError"), clf |-> model]
    ELSE [prediction |-> TreePredict(model, values), clf |-> model]

NoRecord == [k \in {} |-> None]
Idle == [pc |-> "idle", sent |-> NoRecord, json |-> NoRecord,
         index |-> <<>>, values |-> <<>>, response |-> None]

\* The records clients post.
Records ==
    {[city |-> c, experience |-> e, company_type |-> p[1], city_development_index |-> p[2],
      enrollee_id |-> IntV(1)]
        : c \in {StrV("city_21"), StrV("city_5"), IntV(21)},
          e \in {StrV("<1"), StrV(">20"), StrV("3")},
          p \in {<<StrV("not_specified"), FloatV(90)>>, <<StrV("Pvt Ltd"), FloatV(50)>>}}
    \cup {[city |-> IntV(21), experience |-> StrV("3"), enrollee_id |-> IntV(1)]}
    \cup {[city |-> IntV(21), experience |-> StrV("1-2"), company_type |-> StrV("Pvt Ltd"),
           city_development_index |-> FloatV(50), enrollee_id |-> IntV(1)]}

\* clf = load('clf.joblib'), as the module is imported.
Startup ==
    /\ req = <<>>
    /\ joblib # NoTree
    /\ clf' = joblib
    /\ req' = [t \in Threads |-> Idle]
    /\ UNCHANGED <<envVars, pipeVars, normVars>>

\* data = request.json
Receive(t, record) ==
    /\ req # <<>>
    /\ req[t].pc = "idle"
    /\ req' = [req EXCEPT ![t] = [Idle EXCEPT !.pc = "received", !.sent = record,
                                              !.json = record]]
    /\ UNCHANGED <<clf, envVars, pipeVars, normVars>>

\* input_data = preprocess_input(data); an exception is answered with a 500.
Preprocess(t) ==
    /\ req # <<>>
    /\ req[t].pc = "received"
    /\ LET r == preprocess_input(req[t].json)
       IN  req' = [req EXCEPT ![t].json = r.input_data,
                              ![t].index = r.index,
                              ![t].values = r.values,
                              ![t].pc = IF r.ok THEN "preprocessed" ELSE "responded",
                              ![t].response = IF r.ok THEN None ELSE Raise("500")]
    /\ UNCHANGED <<clf, envVars, pipeVars, normVars>>

\* predictions = make_prediction(input_data); return jsonify(...)
Predict(t) ==
    /\ req # <<>>
    /\ req[t].pc = "preprocessed"
    /\ LET r == make_prediction(clf, req[t].values)
       IN  /\ clf' = r.clf
           /\ req' = [req EXCEPT ![t].pc = "responded",
                                 ![t].response = IF Raised(r.prediction) THEN Raise("500")
                                                 ELSE r.prediction]
    /\ UNCHANGED <<envVars, pipeVars, normVars>>

\* The response is sent and the thread takes the next request.
Finish(t) ==
    /\ req # <<>>
    /\ req[t].pc = "responded"
    /\ req' = [req EXCEPT ![t] = Idle]
    /\ UNCHANGED <<clf, envVars, pipeVars, normVars>>

----------------------------------------------------------------------------
(* Specification: one run of run_classifier_pipeline *)

ServiceDown ==
    /\ clf = NoTree
    /\ req = <<>>

Init ==
    /\ yaml \in YamlFiles
    /\ csv \in CsvFiles
    /\ fstat \in FstatChoices
    /\ diskok \in BOOLEAN
    /\ joblib = NoTree
    /\ Constructed
    /\ NormIdle
    /\ ServiceDown

Next ==
    \/ load_constants
    \/ set_seed
    \/ load_dataset
    \/ preprocess_dataset
    \/ encode_features
    \/ ApplyOversamplingStage
    \/ SelectFeaturesStage
    \/ train_classifier
    \/ pipeline_completed

Spec == Init /\ [][Next]_vars

----------------------------------------------------------------------------
(* Specification: a normalizer applied to one raw cell *)

InitNorm ==
    /\ NormInit
    /\ yaml = FullConfig(FALSE, 4)
    /\ csv = [exists |-> FALSE, rows |-> <<>>]
    /\ fstat = {}
    /\ diskok = TRUE
    /\ joblib = NoTree
    /\ Constructed
    /\ ServiceDown

NextNorm ==
    \/ ApplyExperience
    \/ ApplySize
    \/ ApplySizeAgain
    \/ ApplyLastJob
    \/ ApplyEdLevel
    \/ ApplyCity

SpecNorm == InitNorm /\ [][NextNorm]_vars


----------------------------------------------------------------------------
(* The states training leaves behind *)

\* self.df, self.y and self.X_encoded after preprocess_dataset and encode_features
\* on a CSV file whose rows all convert.
Encoded(rows) == EncodeOutcome((CHOOSE r \in PreprocessOutcomes(rows) : r.ok).df)

\* run_classifier_pipeline's state as select_features is about to be called, after a
\* run on `rows` with oversampling off.
BeforeSelect(file, rows) ==
    LET enc == Encoded(rows)
    IN  /\ yaml = file
        /\ csv = [exists |-> TRUE, rows |-> rows]
        /\ pc = "select_features"
        /\ ran = SubSeq(Stages, 1, 6)
        /\ stdout = <<"Loading constants...", "Setting seed for reproducibility...",
                      "Loading dataset...", "Preprocessing dataset...",
                      "Encoding features...", "Oversampling is not applied.">>
        /\ consts = LoadedConstants(file)
        /\ seeded = TRUE
        /\ df = enc.df
        /\ y = enc.y
        /\ X_encoded = enc.X
        /\ X_final = NoFrame
        /\ test_score = <<>>
        /\ best_tree = NoTree
        /\ best_accuracy = None
        /\ joblib = NoTree

\* The trees a completed run dumps: any fold's estimator, fitted on the columns
\* select_features kept.
TrainedTrees ==
    {Estimator(n, select_features(IntV(k), Encoded(d).X, Encoded(d).y, high).X, IntV(3))
        : n \in 1..CvFolds, k \in 1..MaxK, high \in FstatChoices,
          d \in {Dataset(SmoteNeighbors + 1, SmoteNeighbors + 1)}}

----------------------------------------------------------------------------
(* Specification: select_features on every ranking of the columns *)

SelectRows == <<Leaver(1), Leaver(0), Leaver(1), Leaver(0), Leaver(1)>>

InitSelect ==
    /\ \E k \in 1..(Len(Encoded(SelectRows).X.columns) + 1) :
           BeforeSelect(FullConfig(FALSE, k), SelectRows)
    /\ fstat \in SUBSET {Encoded(SelectRows).X.columns[n]
                            : n \in 1..Len(Encoded(SelectRows).X.columns)}
    /\ diskok = TRUE
    /\ NormIdle
    /\ ServiceDown

NextSelect == SelectFeaturesStage

SpecSelect == InitSelect /\ [][NextSelect]_vars

----------------------------------------------------------------------------
(* Specification: the service, started on the file a training run left *)

InitServe ==
    /\ joblib \in TrainedTrees \cup {NoTree}
    /\ yaml = FullConfig(FALSE, 4)
    /\ csv = [exists |-> FALSE, rows |-> <<>>]
    /\ fstat = {}
    /\ diskok = TRUE
    /\ pc = "done"
    /\ ran = <<>>
    /\ stdout = <<>>
    /\ consts = <<>>
    /\ seeded = FALSE
    /\ df = <<>>
    /\ y = <<>>
    /\ X_encoded = NoFrame
    /\ X_final = NoFrame
    /\ test_score = <<>>
    /\ best_tree = NoTree
    /\ best_accuracy = None
    /\ NormIdle
    /\ ServiceDown

NextServe ==
    \/ Startup
    \/ \E t \in Threads, record \in Records : Receive(t, record)
    \/ \E t \in Threads : Preprocess(t)
    \/ \E t \in Threads : Predict(t)
    \/ \E t \in Threads : Finish(t)

SpecServe == InitServe /\ [][NextServe]_vars

----------------------------------------------------------------------------
(* Claims about the normalizers, under SpecNorm *)

\* C2: the training-side experience normalization (convert_experience_to_int, then
\* the int8 cast) maps missing to -1, "<1" to 0, ">20" to 21 and each numeric string
\* "1".."20" to its integer, so every result is an integer in -1..21.
C2_ExperienceCodes ==
    op = "experience" =>
        /\ IsNaN(arg) => res[1] = IntV(-1)
        /\ arg = StrV("<1") => res[1] = IntV(0)
        /\ arg = StrV(">20") => res[1] = IntV(21)
        /\ \A n \in 1..20 : arg = StrV(ToString(n)) => res[1] = IntV(n)
        /\ (IsNaN(arg) \/ arg.s \in ExperienceLevels) =>
               res[1].t = "int" /\ res[1].i \in -1..21

C2_Witness == op = "experience" /\ arg = StrV(">20") /\ res = <<IntV(21)>>

\* The rule the first-matching-rule table gives a company-size cell, with the '<'
\* rule reading "starts with '<'" or "contains '<'".
SizeRule(row, lessAnywhere) ==
    IF IsNaN(row) THEN "missing"
    ELSE IF \E k \in 1..Len(row.s) : SubSeq(row.s, k, k) = "+" THEN "plus"
    ELSE IF \E k \in 1..Len(row.s) : SubSeq(row.s, k, k) = "/" THEN "slash"
    ELSE IF \E k \in (IF lessAnywhere THEN 1..Len(row.s) ELSE 1..1) :
                k <= Len(row.s) /\ SubSeq(row.s, k, k) = "<" THEN "less"
    ELSE IF \E k \in 1..Len(row.s) : SubSeq(row.s, k, k) = "-" THEN "hyphen"
    ELSE "other"

\* What the table prescribes for each rule: for the hyphen rule the text left of the
\* first hyphen, i.e. the prefix with no hyphen that a hyphen follows.
FollowsRule(row, rule, out) ==
    CASE rule = "missing" -> out = IntV(-1)
      [] rule = "plus" -> out = IntV(10000)
      [] rule = "slash" -> out = IntV(10)
      [] rule = "less" -> out = IntV(0)
      [] rule = "hyphen" ->
            /\ IsStr(out)
            /\ Len(out.s) < Len(row.s)
            /\ SubSeq(row.s, 1, Len(out.s) + 1) = out.s \o "-"
            /\ \A k \in 1..Len(out.s) : SubSeq(out.s, k, k) # "-"
      [] rule = "other" -> out = row

\* C3 as stated: convert_size_to_int follows the first matching rule of: missing -> -1;
\* contains '+' -> 10000; contains '/' -> 10; STARTS WITH '<' -> 0; contains '-' ->
\* the text left of the first hyphen; anything else unchanged.
C3_StartsWithLess == op = "size" => FollowsRule(arg, SizeRule(arg, FALSE), res[1])

\* C3 amended: the same table with the fourth rule reading CONTAINS '<' -> 0.
C3_ContainsLess == op = "size" => FollowsRule(arg, SizeRule(arg, TRUE), res[1])

C3_Witness == op = "size" /\ arg = StrV("1<-") /\ res = <<IntV(0)>>

----------------------------------------------------------------------------
(* Claims about the training run, under Spec *)

\* C5: best_accuracy is 100 times the maximum of the five fold scores (not their
\* mean), and best_tree is the estimator of the lowest-indexed fold that reaches the
\* maximum: one of the five fold estimators, fitted on X_final's columns.
C5_BestFold ==
    test_score # <<>> =>
        /\ \A n \in 1..CvFolds : 100 * test_score[n].i <= best_accuracy.i
        /\ best_tree.fold \in 1..CvFolds
        /\ 100 * test_score[best_tree.fold].i = best_accuracy.i
        /\ \A n \in 1..(best_tree.fold - 1) : test_score[n].i < test_score[best_tree.fold].i
        /\ best_tree.feature_names_in = X_final.columns
        /\ best_accuracy.t = "float"

\* The maximum is tied between folds 2 and 3, and differs from the mean.
C5_Witness ==
    /\ test_score # <<>>
    /\ test_score[1].i < test_score[2].i
    /\ test_score[3] = test_score[2]
    /\ test_score[CvFolds].i < test_score[2].i
    /\ best_tree.fold = 2
    /\ best_accuracy = FloatV(10000)

IsAccuracyLine(line) == Len(line) >= 17 /\ SubSeq(line, 1, 17) = "Accuracy achieved"
Printed(out, line) == \E n \in 1..Len(out) : out[n] = line
Reported(out) ==
    \/ Printed(out, "\nPipeline completed.")
    \/ \E n \in 1..Len(out) : IsAccuracyLine(out[n])

\* The state part of C7: the stages called are a prefix of the fixed order; a run
\* that raised has printed neither the accuracy line nor "Pipeline completed."; a
\* config failure comes before any data loading; success is reported only after all
\* eight stages and the artifact's write.
PipelineOrder ==
    /\ Len(ran) <= Len(Stages)
    /\ ran = SubSeq(Stages, 1, Len(ran))
    /\ pc = "raised" => ~Reported(stdout)
    /\ (pc = "raised" /\ Len(consts) < Len(ConfigKeys)) => (ran = <<"load_constants">> /\ df = <<>>)
    /\ (pc = "raised" /\ ~csv.exists) => Len(ran) <= 3
    /\ Reported(stdout) => (ran = Stages /\ joblib = best_tree /\ joblib # NoTree)

\* C7: the stages run in the fixed order, and once a stage has raised nothing more
\* happens: no later stage runs and no success is reported.
C7_AbortOnFailure == [][pc # "raised" /\ PipelineOrder']_vars

\* The write of clf.joblib failed after all eight stages were called.
C7_Witness ==
    /\ pc = "raised"
    /\ ran = Stages
    /\ ~diskok
    /\ test_score # <<>>

Balanced(labels) == Count(labels, FloatV(0)) = Count(labels, FloatV(100))

\* C8: apply_oversampling, when it is enabled and returns, leaves as many labels of
\* class 0 as of class 1 and as many rows as labels; when it is disabled it leaves
\* the matrix and the labels as they were.
C8_Oversampling ==
    [][(pc = "apply_oversampling" /\ pc' = "select_features") =>
          IF Truthy(Attr("OVERSAMPLING"))
          THEN /\ Balanced(y')
               /\ Len(X_encoded'.rows) = Len(y')
               /\ SubSeq(y', 1, Len(y)) = y
               /\ SubSeq(X_encoded'.rows, 1, Len(y)) = X_encoded.rows
          ELSE X_encoded' = X_encoded /\ y' = y]_vars

\* Oversampling added synthetic rows to the rows the CSV file had.
C8_Witness ==
    /\ pc = "select_features"
    /\ Truthy(Attr("OVERSAMPLING"))
    /\ Len(y) = Len(df) + 2
    /\ Len(X_encoded.rows) = Len(y)

----------------------------------------------------------------------------
(* Claim about select_features, under SpecSelect *)

\* The place of X_final's n-th column in X_encoded (0 when it is no column of it).
PlaceOf(n) ==
    LET hits == {j \in 1..Len(X_encoded.columns) : X_encoded.columns[j] = X_final.columns[n]}
    IN  IF hits = {} THEN 0 ELSE CHOOSE j \in hits : TRUE

\* C9: for 1 <= K <= N, X_final has exactly K columns, each a column of X_encoded
\* (name and values), in X_encoded's relative order; with K = N it is X_encoded.
C9_ExactlyK ==
    (pc = "train_classifier" /\ Attr("NUM_FEATURES_CLF").i \in 1..Len(X_encoded.columns)) =>
        /\ Len(X_final.columns) = Attr("NUM_FEATURES_CLF").i
        /\ \A n \in 1..Len(X_final.columns) :
              /\ PlaceOf(n) # 0
              /\ \A k \in 1..Len(X_final.rows) :
                    X_final.rows[k][n] = X_encoded.rows[k][PlaceOf(n)]
        /\ \A n \in 1..(Len(X_final.columns) - 1) : PlaceOf(n) < PlaceOf(n + 1)
        /\ Len(X_final.rows) = Len(X_encoded.rows)
        /\ \A k \in 1..Len(X_final.rows) : Len(X_final.rows[k]) = Len(X_final.columns)
        /\ Attr("NUM_FEATURES_CLF").i = Len(X_encoded.columns) => X_final = X_encoded

\* Three columns were kept out of twelve, skipping the first.
C9_Witness ==
    /\ pc = "train_classifier"
    /\ X_final.columns = <<"experience", "training_hours", "city_21">>
    /\ Len(X_encoded.columns) = 12

----------------------------------------------------------------------------
(* Claims about the service, under SpecServe *)

\* The integer code the tables give an experience value.
ExperienceCode(row) ==
    IF row = StrV("<1") THEN 0
    ELSE IF row = StrV(">20") THEN 21
    ELSE CHOOSE n \in 0..21 : row = StrV(ToString(n))

\* C1: for a record whose city is "city_<n>", preprocess_input returns
\* [city_development_index, the experience code as an integer, 1.0 iff n = 21,
\* 1.0 iff company_type is "not_specified"], in that order.
C1_FeatureVector ==
    \A t \in Threads :
        (/\ req # <<>>
         /\ req[t].pc = "preprocessed"
         /\ IsStr(req[t].sent.city)
         /\ ~Raised(convert_city_to_int(req[t].sent.city))) =>
            req[t].values =
                <<req[t].sent.city_development_index,
                  IntV(ExperienceCode(req[t].sent.experience)),
                  IF convert_city_to_int(req[t].sent.city) = IntV(21)
                  THEN FloatV(100) ELSE FloatV(0),
                  IF req[t].sent.company_type = StrV("not_specified")
                  THEN FloatV(100) ELSE FloatV(0)>>

\* C6: whatever run wrote clf.joblib, the Series preprocess_input hands to the model
\* carries exactly the columns the model was fitted on, in the same order.
C6_TrainedColumns ==
    \A t \in Threads :
        (req # <<>> /\ req[t].pc = "preprocessed") =>
            req[t].index = clf.feature_names_in

\* What a service freshly started on clf.joblib answers to a record.
FreshAnswer(record) ==
    LET pre == preprocess_input(record)
        out == make_prediction(joblib, pre.values).prediction
    IN  IF ~pre.ok \/ Raised(out) THEN Raise("500") ELSE out

\* C10: once loaded, clf stays the model of clf.joblib; the handler leaves the
\* posted record as it was; and the answer to a record is what a freshly started
\* service answers, so the same on every call whatever was served before or meanwhile.
C10_Stateless ==
    req # <<>> =>
        /\ clf = joblib
        /\ \A t \in Threads : req[t].json = req[t].sent
        /\ \A t \in Threads :
              req[t].pc = "responded" => req[t].response = FreshAnswer(req[t].sent)
        /\ \A t, u \in Threads :
              (req[t].pc = "responded" /\ req[u].pc = "responded" /\ req[t].sent = req[u].sent)
                  => req[t].response = req[u].response

\* Two threads have answered the same record with a label while a model fitted on
\* four columns is loaded.
C10_Witness ==
    /\ req # <<>>
    /\ req["t1"].pc = "responded"
    /\ req["t2"].pc = "responded"
    /\ req["t1"].sent = req["t2"].sent
    /\ req["t1"].response = FloatV(100)
    /\ req["t2"].response = FloatV(100)

====
